---- MODULE Spec2Model ----
(***************************************************************************)
(* A model of the puterbot (OpenAdapt) sources:                            *)
(*   - openadapt/db/crud.py: the database lock (acquire_db_lock,           *)
(*     release_db_lock), the buffered insert (_insert) and the stop        *)
(*     sequence filter (filter_stop_sequences, get_action_events);         *)
(*     the Recording queries (get_all_recordings, get_latest_recording,    *)
(*     copy_recording);                                                    *)
(*   - tests/openadapt/test_stateful.py: the replay tests;                 *)
(*   - experiments/cursor/sample.py: generate_cursors, the overlap ratio   *)
(*     of draw_labelled_cursors and the localization loop of main.         *)
(* Each component has its own specification over the shared variables; a   *)
(* component's specification leaves the other components' variables at     *)
(* their initial values.                                                   *)
(***************************************************************************)
EXTENDS Integers, Sequences, FiniteSets, TLC

VARIABLES
    \* ---- crud.py: the database lock
    lock,            \* asyncio.Event flag (crud.py:30-31): TRUE = set
    fut,             \* per coroutine: the future lock.wait() awaits
    co,              \* per coroutine: where it stands
    dbSession,       \* which Session() object `db` names (new_session)
    returned,        \* acquire_db_lock calls returned since the last release
    \* ---- sample.py: main, generate_cursors, draw_labelled_cursors
    pc,              \* where main (or the function under study) stands
    width, height,   \* image.size
    jitter,          \* the jitter argument of generate_cursors
    label_bbox,      \* <<max_label_w, max_label_h>>: the font's box of the largest label
    padding,         \* the padding argument of draw_labelled_cursors
    center, spread, iteration,
    identified_locations, exceptions, center_history, spread_history,
    votes, max_overlap_ratio, cursors, overlap_ratio, closest, most_common,
    \* ---- history of the current outer iteration, kept for the properties
    iter_spread,     \* the spread with which the iteration started
    round_spread,    \* the spread of the last generate_cursors call
    pops,            \* how often the iteration went back to a previous level
    overlap_seen,    \* some rendered cursor set exceeded MAX_OVERLAP_RATIO
    rounds,          \* voting rounds that reached a consensus
    queries,         \* answers of the vision model in the iteration
    labels_only,     \* every vote cast so far was a label, 1..NUM_CURSORS
    \* ---- crud.py: _insert
    BATCH_SIZE,      \* crud.py:27
    buffers,         \* per table: the module-level buffer list (crud.py:32-36)
    db_log,          \* the statements db.execute was given, in order
    commits,         \* db.commit() calls
    calls,           \* _insert calls made
    passed,          \* per table: the rows of the buffered calls that returned
    last_call,       \* the last _insert call and how it ended
    \* ---- crud.py: get_action_events, filter_stop_sequences
    action_events,   \* the ActionEvent rows of the recording, by timestamp
    stored_events,   \* the rows as _get read them
    filter_state,    \* "stored", "returned" or "IndexError"
    \* ---- crud.py: the Recording table and its queries
    recordings,      \* the committed Recording rows, in rowid order
    rec_result,      \* what the last crud call on recordings returned
    \* ---- tests/openadapt/test_stateful.py
    test,            \* the test function that runs
    tpc,             \* where it stands
    loop_i,          \* the loop variable i (or the index of letter)
    win_dict, active_win_dict,
    ref_act_dicts,   \* the reference actions (act_dict, total_actions)
    expected_act_dict,
    test_dict        \* the list evaluated from the completion

lockVars == <<lock, fut, co, dbSession, returned>>

imageVars == <<width, height, jitter, label_bbox, padding>>

mainVars == <<pc, imageVars, center, spread, iteration, identified_locations,
              exceptions, center_history, spread_history, votes,
              max_overlap_ratio, cursors, overlap_ratio, closest, most_common,
              iter_spread, round_spread, pops, overlap_seen, rounds, queries,
              labels_only>>

insertVars == <<BATCH_SIZE, buffers, db_log, commits, calls, passed, last_call>>

filterVars == <<action_events, stored_events, filter_state>>

recVars == <<recordings, rec_result>>

testVars == <<test, tpc, loop_i, win_dict, active_win_dict, ref_act_dicts,
              expected_act_dict, test_dict>>

vars == <<lockVars, mainVars, insertVars, filterVars, recVars, testVars>>

\* What each component leaves alone.
notLockVars == <<mainVars, insertVars, filterVars, recVars, testVars>>
notMainVars == <<lockVars, insertVars, filterVars, recVars, testVars>>
notInsertVars == <<lockVars, mainVars, filterVars, recVars, testVars>>
notFilterVars == <<lockVars, mainVars, insertVars, recVars, testVars>>
notRecVars == <<lockVars, mainVars, insertVars, filterVars, testVars>>
notTestVars == <<lockVars, mainVars, insertVars, filterVars, recVars>>

None == "None"

(***************************************************************************)
(* crud.py: acquire_db_lock / release_db_lock                              *)
(***************************************************************************)

\* Number of coroutines of the single process that use the lock.
NumCoroutines == 3

\* new_session() replaces the session object; the model counts them up to here.
MaxSessions == 3

Coroutines == 1..NumCoroutines

LockInit ==
    /\ lock = TRUE
    /\ fut = [c \in Coroutines |-> "none"]
    /\ co = [c \in Coroutines |-> "idle"]
    /\ dbSession = 0
    /\ returned = 0

\* lock.clear(); return True -- the tail of acquire_db_lock, which runs without
\* an await point once lock.wait() has returned.
AcquireReturn(c) ==
    /\ lock' = FALSE
    /\ co' = [co EXCEPT ![c] = "holding"]
    /\ returned' = returned + 1

\* A coroutine calls acquire_db_lock. Event.wait() returns at once when the flag
\* is set (no suspension); otherwise it registers a future and suspends.
AcquireCall(c) ==
    /\ co[c] = "idle"
    /\ IF lock
         THEN /\ AcquireReturn(c)
              /\ UNCHANGED fut
         ELSE /\ fut' = [fut EXCEPT ![c] = "pending"]
              /\ co' = [co EXCEPT ![c] = "waiting"]
              /\ UNCHANGED <<lock, returned>>
    /\ UNCHANGED <<dbSession, notLockVars>>

\* The event loop resumes a coroutine whose future was resolved by Event.set():
\* wait() returns True without looking at the flag again, then lock.clear().
AcquireResume(c) ==
    /\ co[c] = "waiting"
    /\ fut[c] = "done"
    /\ fut' = [fut EXCEPT ![c] = "none"]
    /\ AcquireReturn(c)
    /\ UNCHANGED <<dbSession, notLockVars>>

\* Event.set(): raise the flag and resolve the future of every waiter.
EventSet ==
    /\ lock' = TRUE
    /\ fut' = IF lock THEN fut
              ELSE [c \in Coroutines |-> IF fut[c] = "pending" THEN "done" ELSE fut[c]]

\* A holder calls release_db_lock: lock.set(); new_session().
ReleaseLock(c) ==
    /\ co[c] = "holding"
    /\ dbSession < MaxSessions
    /\ EventSet
    /\ dbSession' = dbSession + 1
    /\ co' = [co EXCEPT ![c] = "idle"]
    /\ returned' = 0
    /\ UNCHANGED notLockVars

Holders == {c \in Coroutines : co[c] = "holding"}

\* C1: the database lock admits at most one holder at a time: between an
\* acquire_db_lock call that has returned and the following release_db_lock no
\* other acquire_db_lock call returns.
C1_AtMostOneHolder ==
    /\ Cardinality(Holders) <= 1
    /\ returned <= 1

(***************************************************************************)
(* sample.py: arithmetic of the cursor experiment                          *)
(* Floats are modelled as exact fractions [n, d] with d > 0. The spreads    *)
(* the program uses are powers of 1/2, for which float arithmetic is exact. *)
(***************************************************************************)

NUM_CURSORS == 4

\* SPREAD_REDUCTION_FACTOR = 0.5
SPREAD_REDUCTION_FACTOR == [n |-> 1, d |-> 2]

\* MAX_OVERLAP_RATIO = 0.2
MAX_OVERLAP_RATIO == [n |-> 1, d |-> 5]

CONSENSUS_THRESHOLD == 2

\* MAX_ITERATIONS = None
MAX_ITERATIONS == None

\* jitter: float = 0.01, the default of generate_cursors
DefaultJitter == [n |-> 1, d |-> 100]

\* padding: int = 10, the default of draw_labelled_cursors
DefaultPadding == 10

Max(a, b) == IF a >= b THEN a ELSE b
Min(a, b) == IF a <= b THEN a ELSE b

\* Python's int() on a float n/d (d > 0): truncation toward zero.
TruncDiv(n, d) == IF n >= 0 THEN n \div d ELSE -((-n) \div d)

RECURSIVE Gcd(_, _)
Gcd(a, b) == IF b = 0 THEN a ELSE Gcd(b, a % b)

\* A fraction in lowest terms, so that equal values are equal states.
Frac(n, d) ==
    LET g == Gcd(IF n < 0 THEN -n ELSE n, d)
    IN  IF n = 0 THEN [n |-> 0, d |-> 1] ELSE [n |-> n \div g, d |-> d \div g]

FracMul(a, b) == Frac(a.n * b.n, a.d * b.d)
FracLeq(a, b) == a.n * b.d <= b.n * a.d
FracLess(a, b) == a.n * b.d < b.n * a.d
FracMax(a, b) == IF FracLeq(b, a) THEN a ELSE b
FracZero == [n |-> 0, d |-> 1]
FracOne == [n |-> 1, d |-> 1]

\* int(np.sqrt(n))
ISqrt(n) == CHOOSE k \in 0..n : k * k <= n /\ (k + 1) * (k + 1) > n

(***************************************************************************)
(* sample.py: generate_cursors                                             *)
(***************************************************************************)

grid_size == ISqrt(NUM_CURSORS)

\* random.random() returns r in [0, 1); the model draws r = k / RandDen, with k
\* the least, a middle and the greatest value.
RandDen == 4
RandomValues == {0, RandDen \div 2, RandDen - 1}

\* int(start + i * cell), with cell = (size * spread) / grid_size and
\*   start = c - (cell * (grid_size - 1)) / 2.
GridCoord(c, i, size, sp) ==
    TruncDiv(c * 2 * grid_size * sp.d
               + size * sp.n * (2 * i - (grid_size - 1)),
             2 * grid_size * sp.d)

\* int((random.random() - 0.5) * cell * jitter) with random.random() = r / RandDen
JitterOffset(r, size, sp, jit) ==
    TruncDiv((2 * r - RandDen) * size * sp.n * jit.n,
             2 * RandDen * grid_size * sp.d * jit.d)

\* max(0, min(size - 1, v)); the variant first, without the max(0, ...)
ClampNoLower(size, v) == Min(size - 1, v)
Clamp(size, v) == Max(0, Min(size - 1, v))

\* The cursor of grid cell (i, j); rx, ry are the two random draws made for it.
CursorAt(ctr, sp, w, h, jit, i, j, rx, ry) ==
    [x |-> Clamp(w, GridCoord(ctr.x, i, w, sp)
                          + JitterOffset(rx, w, sp, jit)),
     y |-> Clamp(h, GridCoord(ctr.y, j, h, sp)
                          + JitterOffset(ry, h, sp, jit))]

(***************************************************************************)
(* sample.py: draw_labelled_cursors, the rectangles and the overlap ratio  *)
(***************************************************************************)

\* (rect_x0, rect_y0, rect_x1, rect_y1) of the cursor at coords
Rectangle(coords, rect_width, rect_height) ==
    <<coords.x - rect_width \div 2, coords.y - rect_height \div 2,
      coords.x + rect_width \div 2, coords.y + rect_height \div 2>>

Rectangles(crs, rect_width, rect_height) ==
    [k \in 1..Len(crs) |-> Rectangle(crs[k], rect_width, rect_height)]

RectArea(rect) == (rect[3] - rect[1]) * (rect[4] - rect[2])

OverlapArea(rect1, rect2) ==
    LET overlap_width == Max(0, Min(rect1[3], rect2[3]) - Max(rect1[1], rect2[1]))
        overlap_height == Max(0, Min(rect1[4], rect2[4]) - Max(rect1[2], rect2[2]))
    IN  overlap_width * overlap_height

\* ratio1 (and, with the roles swapped, ratio2)
Ratio(overlap_area, rect_area) ==
    IF rect_area > 0 THEN Frac(overlap_area, rect_area) ELSE FracZero

\* The nested loops over (i, j), i != j, folded in loop order; the variant
\* first, which keeps the ratio of the last pair instead of the maximum.
RECURSIVE OverlapFoldLast(_, _, _)
OverlapFoldLast(rectangles, p, acc) ==
    LET n == Len(rectangles) IN
    IF p > n * n THEN acc
    ELSE LET i == ((p - 1) \div n) + 1
             j == ((p - 1) % n) + 1
             a == OverlapArea(rectangles[i], rectangles[j])
         IN  OverlapFoldLast(rectangles, p + 1,
                 IF i /= j
                   THEN FracMax(Ratio(a, RectArea(rectangles[i])),
                                Ratio(a, RectArea(rectangles[j])))
                   ELSE acc)

RECURSIVE OverlapFold(_, _, _)
OverlapFold(rectangles, p, acc) ==
    LET n == Len(rectangles) IN
    IF p > n * n THEN acc
    ELSE LET i == ((p - 1) \div n) + 1
             j == ((p - 1) % n) + 1
             a == OverlapArea(rectangles[i], rectangles[j])
         IN  OverlapFold(rectangles, p + 1,
                 IF i /= j
                   THEN FracMax(FracMax(acc, Ratio(a, RectArea(rectangles[i]))),
                                Ratio(a, RectArea(rectangles[j])))
                   ELSE acc)

\* The second value draw_labelled_cursors returns.
max_overlap_ratio_of(crs, rect_width, rect_height) ==
    OverlapFold(Rectangles(crs, rect_width, rect_height), 1, FracZero)

(***************************************************************************)
(* sample.py: main, the localization loop                                  *)
(***************************************************************************)

\* The image of the model (image.size after downsampling).
ImgWidth == 64
ImgHeight == 48

\* draw.textbbox of the largest label in the font of the model's image.
LabelW == 1
LabelH == 1

\* The model follows main for at most this many outer iterations.
MaxOuterIterations == 3

\* result['closest'] as the vision model may give it: a label, a number that is
\* no label, None, or text that int() rejects.
\* A value is [kind, val]: kind "int" for text that int() reads as val.
ClosestNumbers == {0, 1, NUM_CURSORS, NUM_CURSORS + 1}
IntValue(v) == [kind |-> "int", val |-> v]
NoneValue == [kind |-> "None", val |-> 0]
NotANumber == [kind |-> "text", val |-> 0]
Unbound == [kind |-> "unbound", val |-> 0]
ClosestValues == {IntValue(v) : v \in ClosestNumbers} \cup {NoneValue, NotANumber}

\* Counter(votes).most_common(1)[0]: <<value, count>>, the first inserted value
\* among those of greatest count.
CountOf(s, v) == Cardinality({k \in 1..Len(s) : s[k] = v})
FirstIndex(s, v) == CHOOSE k \in 1..Len(s) : s[k] = v /\ \A m \in 1..(k - 1) : s[m] /= v
MostCommon(s) ==
    LET v == CHOOSE a \in {s[k] : k \in 1..Len(s)} :
                 \A b \in {s[k] : k \in 1..Len(s)} :
                     \/ CountOf(s, a) > CountOf(s, b)
                     \/ CountOf(s, a) = CountOf(s, b) /\ FirstIndex(s, a) <= FirstIndex(s, b)
    IN  <<v, CountOf(s, v)>>

\* Python's list index lst[idx]: negative indices count from the end; the
\* 1-based position in the list, or 0 for an IndexError.
PyIndex(len, idx) ==
    IF idx >= 0 /\ idx < len THEN idx + 1
    ELSE IF idx < 0 /\ idx >= -len THEN len + idx + 1
    ELSE 0

Pop(s) == SubSeq(s, 1, Len(s) - 1)
Last(s) == s[Len(s)]

\* The variables of the loop before its first iteration (lines 240-243).
LoopRest ==
    /\ identified_locations = <<>>
    /\ exceptions = 0
    /\ center_history = <<>>
    /\ spread_history = <<>>
    /\ votes = <<>>
    /\ max_overlap_ratio = FracZero
    /\ overlap_ratio = FracZero
    /\ closest = Unbound
    /\ most_common = <<>>
    /\ iter_spread = FracZero
    /\ round_spread = FracZero
    /\ pops = 0
    /\ overlap_seen = FALSE
    /\ rounds = 0
    /\ queries = 0
    /\ labels_only = TRUE

MainIdle ==
    /\ pc = "off"
    /\ width = 0 /\ height = 0
    /\ jitter = FracZero
    /\ label_bbox = <<0, 0>>
    /\ padding = 0
    /\ center = [x |-> 0, y |-> 0]
    /\ spread = FracZero
    /\ iteration = 0
    /\ cursors = <<>>
    /\ LoopRest

\* main, lines 217-243
MainInit ==
    /\ pc = "loop_top"
    /\ width = ImgWidth /\ height = ImgHeight
    /\ jitter = DefaultJitter
    /\ label_bbox = <<LabelW, LabelH>>
    /\ padding = DefaultPadding
    /\ center = [x |-> ImgWidth \div 2, y |-> ImgHeight \div 2]
    /\ spread = FracOne
    /\ iteration = 1
    /\ cursors = <<>>
    /\ LoopRest

roundHistory == <<iter_spread, round_spread, pops, overlap_seen, rounds, queries,
                  labels_only>>

\* if MAX_ITERATIONS and iteration > MAX_ITERATIONS
IterationLimitHit == MAX_ITERATIONS /= None /\ iteration > MAX_ITERATIONS

\* Lines 245-277: the top of the outer loop.
LoopTop ==
    /\ pc = "loop_top"
    /\ iteration <= MaxOuterIterations
    /\ IF IterationLimitHit
         THEN /\ pc' = "final"
              /\ UNCHANGED <<votes, center_history, spread_history,
                             max_overlap_ratio, cursors, roundHistory>>
         ELSE /\ votes' = <<>>
              /\ center_history' = Append(center_history, center)
              /\ spread_history' = Append(spread_history, spread)
              /\ max_overlap_ratio' = FracZero
              /\ cursors' = <<>>
              /\ iter_spread' = spread
              /\ pops' = 0
              /\ overlap_seen' = FALSE
              /\ queries' = 0
              /\ pc' = "generate"
              /\ UNCHANGED <<round_spread, rounds, labels_only>>
    /\ UNCHANGED <<imageVars, center, spread, iteration, identified_locations,
                   exceptions, overlap_ratio, closest, most_common, notMainVars>>

\* One pass of the loops of generate_cursors (lines 77-90); after the last one
\* the function returns and its caller goes on at `next`.
GenerateCursor(next) ==
    /\ pc = "generate"
    /\ Len(cursors) < grid_size * grid_size
    /\ \E rx, ry \in RandomValues :
         LET k == Len(cursors) + 1
             i == (k - 1) \div grid_size
             j == (k - 1) % grid_size
         IN  cursors' = Append(cursors,
                 CursorAt(center, spread, width, height, jitter, i, j, rx, ry))
    /\ pc' = IF Len(cursors) + 1 = grid_size * grid_size THEN next ELSE "generate"
    /\ round_spread' = spread
    /\ UNCHANGED <<imageVars, center, spread, iteration, identified_locations,
                   exceptions, center_history, spread_history, votes,
                   max_overlap_ratio, overlap_ratio, closest, most_common,
                   iter_spread, pops, overlap_seen, rounds, queries, labels_only,
                   notMainVars>>

\* Line 279 of main: cursors = generate_cursors(center, spread, width, height)
MainGenerate == GenerateCursor("draw")

\* max_overlap_ratio = max(overlap_ratio, max_overlap_ratio), line 282; the
\* variant first, which keeps the last ratio
NextMaxOverlapLast(ratio, running) == ratio
NextMaxOverlap(ratio, running) == FracMax(ratio, running)

\* draw_labelled_cursors(image, cursors, ...): rect_width and rect_height
\* (lines 134-139) and the overlap ratio it returns (lines 141-175); its caller
\* goes on at `next`.
DrawLabelledCursors(next) ==
    /\ pc = "draw"
    /\ overlap_ratio' = max_overlap_ratio_of(cursors, label_bbox[1] + padding,
                                             label_bbox[2] + padding)
    /\ pc' = next
    /\ UNCHANGED <<imageVars, center, spread, iteration, identified_locations,
                   exceptions, center_history, spread_history, votes, cursors,
                   closest, most_common, iter_spread, round_spread, pops,
                   rounds, queries, labels_only, notMainVars>>

\* Lines 280-282 of main: the call and the running maximum of the iteration.
MainDraw ==
    /\ DrawLabelledCursors("prompt")
    /\ max_overlap_ratio' = NextMaxOverlap(overlap_ratio', max_overlap_ratio)
    /\ overlap_seen' = (overlap_seen \/ FracLess(MAX_OVERLAP_RATIO, overlap_ratio'))

\* The consensus test of line 308.
Consensus(mc) == mc[2] >= CONSENSUS_THRESHOLD

\* Lines 300-309 with `closest` as it stands after the try block.
Vote(c) ==
    IF c = Unbound \/ c = NotANumber
      THEN \* UnboundLocalError at line 300, or ValueError of int() at line 305
           /\ pc' = "crashed"
           /\ UNCHANGED <<center, spread, center_history, spread_history,
                          votes, most_common, pops, cursors, labels_only>>
    ELSE IF c = NoneValue
      THEN \* try again with previous level
           IF center_history = <<>>
             THEN \* IndexError: pop from empty list
                  /\ pc' = "crashed"
                  /\ UNCHANGED <<center, spread, center_history, spread_history,
                                 votes, most_common, pops, cursors, labels_only>>
             ELSE /\ center' = Last(center_history)
                  /\ center_history' = Pop(center_history)
                  /\ spread' = Last(spread_history)
                  /\ spread_history' = Pop(spread_history)
                  /\ pops' = pops + 1
                  /\ cursors' = <<>>
                  /\ pc' = "generate"
                  /\ UNCHANGED <<votes, most_common, labels_only>>
    ELSE /\ votes' = Append(votes, c.val)
         /\ most_common' = MostCommon(votes')
         /\ labels_only' = (labels_only /\ c.val \in 1..NUM_CURSORS)
         /\ IF Consensus(most_common')
              THEN pc' = "end_round" /\ UNCHANGED cursors
              ELSE pc' = "generate" /\ cursors' = <<>>
         /\ UNCHANGED <<center, spread, center_history, spread_history, pops>>

\* Lines 284-298: the vision model answers; parse_code_snippet or the lookup of
\* 'closest' may raise, which leaves `closest` as it was.
PromptAnswer ==
    /\ pc = "prompt"
    /\ \E c \in ClosestValues :
         /\ closest' = c
         /\ Vote(c)
    /\ queries' = queries + 1
    /\ UNCHANGED <<imageVars, iteration, identified_locations, exceptions,
                   max_overlap_ratio, overlap_ratio, iter_spread, round_spread,
                   overlap_seen, rounds, notMainVars>>

PromptException ==
    /\ pc = "prompt"
    /\ exceptions' = 1
    /\ Vote(closest)
    /\ queries' = queries + 1
    /\ UNCHANGED <<imageVars, iteration, identified_locations, closest,
                   max_overlap_ratio, overlap_ratio, iter_spread, round_spread,
                   overlap_seen, rounds, notMainVars>>

\* spread *= SPREAD_REDUCTION_FACTOR; the variant first, which keeps the spread
ReduceSpreadNot(s) == s
ReduceSpread(s) == FracMul(s, SPREAD_REDUCTION_FACTOR)

\* if max_overlap_ratio > MAX_OVERLAP_RATIO: break
OverlapStop(running) == FracLess(MAX_OVERLAP_RATIO, running)

\* Lines 310-319: the end of a voting round.
EndRound ==
    /\ pc = "end_round"
    /\ LET closest_number == most_common[1]
           at == PyIndex(Len(cursors), closest_number - 1)
       IN  IF at = 0
             THEN \* IndexError: list index out of range
                  /\ pc' = "crashed"
                  /\ UNCHANGED <<identified_locations, center, spread, iteration, rounds>>
             ELSE /\ identified_locations' = Append(identified_locations, cursors[at])
                  /\ center' = cursors[at]
                  /\ spread' = ReduceSpread(spread)
                  /\ rounds' = rounds + 1
                  /\ IF OverlapStop(max_overlap_ratio)
                       THEN pc' = "final" /\ UNCHANGED iteration
                       ELSE pc' = "loop_top" /\ iteration' = iteration + 1
    /\ UNCHANGED <<imageVars, exceptions, center_history, spread_history, votes,
                   max_overlap_ratio, cursors, overlap_ratio, closest, most_common,
                   iter_spread, round_spread, pops, overlap_seen, queries,
                   labels_only, notMainVars>>

\* Lines 321-334: the final image of the identified locations.
Final ==
    /\ pc = "final"
    /\ pc' = "done"
    /\ UNCHANGED <<imageVars, center, spread, iteration, identified_locations,
                   exceptions, center_history, spread_history, votes,
                   max_overlap_ratio, cursors, overlap_ratio, closest, most_common,
                   roundHistory, notMainVars>>

(***************************************************************************)
(* Properties of the localization loop                                     *)
(***************************************************************************)

\* A voting round has ended with a consensus and its location is recorded.
RoundEnded == rounds > 0 /\ pc \in {"loop_top", "final", "done"}

\* C2: a voting round ends only when the most frequent vote of that round has
\* at least CONSENSUS_THRESHOLD votes, the votes are reset at the start of every
\* round, and the location appended to identified_locations is the cursor of
\* the last rendered cursor set whose 1-based label equals the winning vote.
C2_ConsensusPicksLabelledCursor ==
    /\ Len(votes) <= queries
    /\ RoundEnded =>
         LET winner == most_common[1] IN
         /\ CountOf(votes, winner) >= CONSENSUS_THRESHOLD
         /\ \A k \in 1..Len(votes) : CountOf(votes, votes[k]) <= CountOf(votes, winner)
         /\ winner \in 1..Len(cursors)
         /\ Last(identified_locations) = cursors[winner]

\* C3: with MAX_ITERATIONS unset the loop stops at the end of the first outer
\* iteration in which a rendered cursor set had an overlap ratio greater than
\* MAX_OVERLAP_RATIO, never after an iteration without one, and the location of
\* the last iteration is recorded.
C3_StopsAtFirstOverlapIteration ==
    /\ pc \in {"final", "done"} =>
         /\ overlap_seen
         /\ rounds = iteration
         /\ Len(identified_locations) = iteration
         /\ Last(identified_locations) = center
    /\ (pc = "loop_top" /\ iteration > 1) =>
         /\ ~overlap_seen
         /\ rounds = iteration - 1

\* The loop has stopped in its third iteration, after two that went on.
C3_Witness == pc = "final" /\ iteration = 3 /\ overlap_seen

MaxGenDim == 3
MaxSpreadHalves == 4
MaxJitter == 4
GenSpreads == {Frac(n, 2) : n \in (-1)..MaxSpreadHalves}
GenJitters == {FracZero, DefaultJitter, Frac(MaxJitter, 1)}

CursorsInit ==
    /\ pc = "generate"
    /\ width \in 1..MaxGenDim
    /\ height \in 1..MaxGenDim
    /\ center \in [x : (-1)..MaxGenDim, y : (-1)..MaxGenDim]
    /\ spread \in GenSpreads
    /\ jitter \in GenJitters
    /\ label_bbox = <<0, 0>>
    /\ padding = 0
    /\ iteration = 0
    /\ cursors = <<>>
    /\ LoopRest

CursorsGenerate == GenerateCursor("returned")

\* Arguments of draw_labelled_cursors: up to MaxOvCursors cursors at
\* (0..MaxOvX) x OvYs, a label box of up to MaxLabelDim and a padding.
MaxOvCursors == 3
MaxOvX == 2
OvYs == {0, 1}
MaxLabelDim == 3
MaxPadding == 1
OvPoints == [x : 0..MaxOvX, y : OvYs]
OvCursorLists == UNION {[1..n -> OvPoints] : n \in 0..MaxOvCursors}

OverlapInit ==
    /\ pc = "draw"
    /\ cursors \in OvCursorLists
    /\ label_bbox \in (1..MaxLabelDim) \X (1..MaxLabelDim)
    /\ padding \in 0..MaxPadding
    /\ width = 0 /\ height = 0
    /\ jitter = FracZero
    /\ center = [x |-> 0, y |-> 0]
    /\ spread = FracZero
    /\ iteration = 0
    /\ LoopRest

OverlapDraw ==
    /\ DrawLabelledCursors("returned")
    /\ UNCHANGED <<max_overlap_ratio, overlap_seen>>

(***************************************************************************)
(* Properties of generate_cursors and of the overlap ratio                 *)
(***************************************************************************)

InsideImage(cur) ==
    /\ 0 <= cur.x /\ cur.x <= width - 1
    /\ 0 <= cur.y /\ cur.y <= height - 1

\* C5: generate_cursors returns exactly NUM_CURSORS cursors, each with
\* 0 <= x <= width-1 and 0 <= y <= height-1, for every center (inside or
\* outside the image), every spread and every jitter.
C5_CursorsInsideImage ==
    /\ \A k \in 1..Len(cursors) : InsideImage(cursors[k])
    /\ pc = "returned" => Len(cursors) = NUM_CURSORS

\* generate_cursors has returned for a center outside the image and a jitter
\* that moves cursors.
C5_Witness ==
    /\ pc = "returned"
    /\ Len(cursors) = NUM_CURSORS
    /\ center.x < 0 /\ center.y > height - 1
    /\ jitter = Frac(MaxJitter, 1)
    /\ \E k \in 1..Len(cursors) : cursors[k].x > 0

\* The unit cells of a rectangle <<x0, y0, x1, y1>>; none when it is inverted.
CellsOf(rect) == (rect[1]..(rect[3] - 1)) \X (rect[2]..(rect[4] - 1))

rect_width == label_bbox[1] + padding
rect_height == label_bbox[2] + padding
DrawnRects == Rectangles(cursors, rect_width, rect_height)

\* The ratios, over ordered pairs of distinct rectangles, of the common cells
\* to the cells of the first.
PairRatios ==
    {Frac(Cardinality(CellsOf(DrawnRects[i]) \cap CellsOf(DrawnRects[j])),
          Cardinality(CellsOf(DrawnRects[i]))) :
        <<i, j>> \in {q \in (1..Len(cursors)) \X (1..Len(cursors)) :
                         q[1] /= q[2] /\ CellsOf(DrawnRects[q[1]]) /= {}}}

IsMaxOf(r, S) ==
    IF S = {} THEN r = FracZero
    ELSE r \in S /\ \A q \in S : FracLeq(q, r)

NoPairIntersects ==
    \A i, j \in 1..Len(cursors) :
        i /= j => CellsOf(DrawnRects[i]) \cap CellsOf(DrawnRects[j]) = {}

TwoCoincide == \E i, j \in 1..Len(cursors) : i /= j /\ cursors[i] = cursors[j]

OverlapBasics ==
    /\ IsMaxOf(overlap_ratio, PairRatios)
    /\ FracLeq(FracZero, overlap_ratio) /\ FracLeq(overlap_ratio, FracOne)
    /\ NoPairIntersects => overlap_ratio = FracZero
    /\ Len(cursors) < 2 => overlap_ratio = FracZero

\* C6 as stated: the returned overlap ratio is the maximum over ordered pairs of
\* distinct rectangles of intersection area over rectangle area, lies in
\* [0, 1], is 0 when no two rectangles intersect with positive area or there
\* are fewer than two cursors, and is 1 when two cursors coincide.
C6_OverlapRatio ==
    pc = "returned" =>
        /\ OverlapBasics
        /\ TwoCoincide => overlap_ratio = FracOne

\* C6 as amended: as stated, except that coinciding cursors give 1 only when
\* the label rectangle has an extent (rect_width >= 2 and rect_height >= 2);
\* otherwise the ratio is 0.
C6_OverlapRatioOfProperRectangles ==
    pc = "returned" =>
        /\ OverlapBasics
        /\ TwoCoincide =>
             overlap_ratio = IF rect_width >= 2 /\ rect_height >= 2
                               THEN FracOne ELSE FracZero

\* Three rectangles with an extent, two of which overlap in part.
C6_Witness ==
    /\ pc = "returned"
    /\ Len(cursors) = 3
    /\ rect_width >= 2 /\ rect_height >= 2
    /\ FracLess(FracZero, overlap_ratio) /\ FracLess(overlap_ratio, FracOne)

(***************************************************************************)
(* crud.py: _insert                                                        *)
(***************************************************************************)

\* The model follows this many _insert calls and batch sizes up to this one
\* (crud.py:27 sets BATCH_SIZE = 1).
MaxInserts == 3
MaxBatchSize == 2

\* Two of the tables with a module-level buffer, with the columns the model
\* keeps of them.
Tables == {"ActionEvent", "MemoryStat"}
ColumnsOf(t) ==
    IF t = "ActionEvent" THEN {"timestamp", "name"}
    ELSE {"timestamp", "memory_usage_bytes"}

\* The keys a caller may put in event_data; "element_state" is no column of
\* either table of the model.
EventKeys == {"timestamp", "name", "element_state"}

\* event_data of call number n: each given key carries the value n.
EventData(keys, n) == [k \in keys |-> IntValue(n)]

\* Lines 56-61: db_obj has every column, None unless event_data gives it; the
\* variant first, with the given columns only
DbObjGivenOnly(t, event_data) ==
    [c \in ColumnsOf(t) \cap DOMAIN event_data |-> event_data[c]]
DbObj(t, event_data) ==
    [c \in ColumnsOf(t) |->
        IF c \in DOMAIN event_data THEN event_data[c] ELSE NoneValue]

\* What is left of event_data after the loop of lines 57-61 deleted the keys.
LeftOver(t, event_data) == (DOMAIN event_data) \ ColumnsOf(t)

\* Line 64: assert not event_data
AssertAllSaved(t, event_data) == LeftOver(t, event_data) = {}

\* Line 69: if buffer is None or len(buffer) >= BATCH_SIZE
FlushDue(buffered, buffer) == ~buffered \/ Len(buffer) >= BATCH_SIZE

\* Line 70: to_insert = buffer or [db_obj]
ToInsert(buffered, buffer, db_obj) ==
    IF buffered /\ buffer /= <<>> THEN buffer ELSE <<db_obj>>

\* Lines 73-74: if buffer: buffer.clear(); the variant first, without the clear
AfterFlushKept(buffer) == buffer
AfterFlush(buffer) == <<>>

InsertInit ==
    /\ BATCH_SIZE \in 1..MaxBatchSize
    /\ buffers = [t \in Tables |-> <<>>]
    /\ db_log = <<>>
    /\ commits = 0
    /\ calls = 0
    /\ passed = [t \in Tables |-> <<>>]
    /\ last_call = [table |-> "", keys |-> {}, buffered |-> FALSE,
                    outcome |-> "none", db_obj |-> <<>>]

InsertIdle ==
    /\ BATCH_SIZE = 1
    /\ buffers = [t \in Tables |-> <<>>]
    /\ db_log = <<>>
    /\ commits = 0
    /\ calls = 0
    /\ passed = [t \in Tables |-> <<>>]
    /\ last_call = [table |-> "", keys |-> {}, buffered |-> FALSE,
                    outcome |-> "none", db_obj |-> <<>>]

\* _insert(event_data, table, buffer): buffered says whether the table's buffer
\* is passed, keys are the keys of event_data. outcome is what the call gives
\* its caller: "Result", "None" or "AssertionError".
Insert(t, keys, buffered) ==
    LET event_data == EventData(keys, calls + 1)
        db_obj == DbObj(t, event_data)
        appended == IF buffered THEN Append(buffers[t], db_obj) ELSE buffers[t]
        call == [table |-> t, keys |-> keys, buffered |-> buffered,
                 outcome |-> "none", db_obj |-> db_obj]
    IN
    /\ calls < MaxInserts
    /\ calls' = calls + 1
    /\ IF ~AssertAllSaved(t, event_data)
         THEN /\ last_call' = [call EXCEPT !.outcome = "AssertionError"]
              /\ UNCHANGED <<buffers, db_log, commits, passed>>
         ELSE /\ passed' = IF buffered THEN [passed EXCEPT ![t] = Append(@, db_obj)]
                           ELSE passed
              /\ IF FlushDue(buffered, appended)
                   THEN /\ db_log' = Append(db_log,
                               [table |-> t, buffered |-> buffered,
                                rows |-> ToInsert(buffered, appended, db_obj)])
                        /\ commits' = commits + 1
                        /\ buffers' = IF buffered /\ appended /= <<>>
                                        THEN [buffers EXCEPT ![t] = AfterFlush(appended)]
                                        ELSE [buffers EXCEPT ![t] = appended]
                        /\ last_call' = [call EXCEPT !.outcome = "Result"]
                   ELSE /\ buffers' = [buffers EXCEPT ![t] = appended]
                        /\ last_call' = [call EXCEPT !.outcome = "None"]
                        /\ UNCHANGED <<db_log, commits>>
    /\ UNCHANGED <<BATCH_SIZE, notInsertVars>>

\* insert_action_event, insert_memory_stat, ...: the callers of this module
\* pass the table's buffer.
InsertBuffered == \E t \in Tables, keys \in SUBSET EventKeys : Insert(t, keys, TRUE)

\* A call without a buffer (the default of the parameter).
InsertUnbuffered == \E t \in Tables, keys \in SUBSET EventKeys : Insert(t, keys, FALSE)

(***************************************************************************)
(* Properties of _insert                                                   *)
(***************************************************************************)

RECURSIVE Flatten(_)
Flatten(ss) == IF ss = <<>> THEN <<>> ELSE Head(ss) \o Flatten(Tail(ss))

\* The statements executed for table t out of its buffer, and their rows.
BufferedStatements(t) ==
    SelectSeq(db_log, LAMBDA st : st.table = t /\ st.buffered)
BufferedRows(t) ==
    Flatten([k \in 1..Len(BufferedStatements(t)) |-> BufferedStatements(t)[k].rows])

\* C7: for the _insert calls that share one buffer, every row is handed to the
\* database exactly once and in call order: rows stay in the buffer until it
\* holds BATCH_SIZE rows, then the whole buffer is executed and committed in one
\* statement and emptied, so after every call the buffer holds fewer than
\* BATCH_SIZE rows.
C7_BufferedRowsOnceInOrder ==
    /\ commits = Len(db_log)
    /\ \A t \in Tables :
         /\ BufferedRows(t) \o buffers[t] = passed[t]
         /\ Len(buffers[t]) < BATCH_SIZE
         /\ \A k \in 1..Len(BufferedStatements(t)) :
                Len(BufferedStatements(t)[k].rows) = BATCH_SIZE

\* With a batch size of 2, a buffer has been executed twice and holds a row.
C7_Witness ==
    /\ BATCH_SIZE = 2
    /\ \E t \in Tables :
         /\ Len(BufferedStatements(t)) >= 1
         /\ Len(buffers[t]) = 1
         /\ Len(passed[t]) = 3

\* C8: _insert returns the Result object when no buffer is provided and None
\* when a buffer is provided.
C8_ResultOnlyWithoutBuffer ==
    /\ (last_call.outcome = "Result") => ~last_call.buffered
    /\ (last_call.outcome = "None") => last_call.buffered
    /\ (last_call.outcome \in {"Result", "None"} /\ ~last_call.buffered)
         => last_call.outcome = "Result"

\* The row the claim expects for the last call.
ExpectedRow(t, keys, n, row) ==
    /\ DOMAIN row = ColumnsOf(t)
    /\ \A c \in ColumnsOf(t) :
         row[c] = IF c \in keys THEN IntValue(n) ELSE NoneValue

\* Where the last call put its row: the end of the buffer, or of the statement
\* it executed.
StoredRow ==
    IF last_call.outcome = "None" THEN Last(buffers[last_call.table])
    ELSE Last(Last(db_log).rows)

\* C9: a call whose event_data has a key that is no column of the table fails
\* on its assertion before anything is appended to the buffer or written to the
\* database; otherwise the stored row has every column of the table, set to the
\* event value where given and to None elsewhere.
C9_AllEventDataSavedOrFails ==
    [][calls' = calls + 1 =>
         IF last_call'.keys \subseteq ColumnsOf(last_call'.table)
           THEN /\ last_call'.outcome \in {"Result", "None"}
                /\ ExpectedRow(last_call'.table, last_call'.keys, calls', StoredRow')
           ELSE /\ last_call'.outcome = "AssertionError"
                /\ UNCHANGED <<buffers, db_log, commits>>]_vars

\* A call with a key that is no column has failed while rows were buffered and
\* after statements were executed.
C9_Witness ==
    /\ last_call.outcome = "AssertionError"
    /\ last_call.buffered
    /\ buffers[last_call.table] /= <<>>
    /\ db_log /= <<>>

(***************************************************************************)
(* crud.py: get_action_events, filter_stop_sequences                       *)
(***************************************************************************)

\* config.STOP_SEQUENCES is set outside these sources; the model uses a typed
\* string and a repeated special key, each of length 2.
STOP_SEQUENCES == << <<"a", "b">>, <<"ctrl", "ctrl">> >>

\* The model looks at recordings of up to this many action events.
MaxEvents == 5

CharEvent(name, char) ==
    [name |-> name, canonical_key_char |-> char, canonical_key_name |-> None]
NamedKeyEvent(name, key) ==
    [name |-> name, canonical_key_char |-> None, canonical_key_name |-> key]

\* The action events of the model: presses and releases of the keys of the
\* stop sequences, a press of "c", and a mouse click.
EventAlphabet ==
    {CharEvent(n, k) : n \in {"press", "release"}, k \in {"a", "b"}}
      \cup {NamedKeyEvent(n, "ctrl") : n \in {"press", "release"}}
      \cup {CharEvent("press", "c"), CharEvent("click", None)}

EventLists == UNION {[1..n -> EventAlphabet] : n \in 0..MaxEvents}

\* canonical_key_char == key or canonical_key_name == key
KeyIs(ev, key) == ev.canonical_key_char = key \/ ev.canonical_key_name = key

\* canonical_key_char in sequence or canonical_key_name in sequence
KeyIn(ev, sequence) == \E k \in 1..Len(sequence) : KeyIs(ev, sequence[k])

\* Lines 411-432: the inner loop over j, from the back of action_events, for
\* one sequence; index is stop_sequence_indices[i]. Gives index and
\* num_to_remove as the loop leaves them.
RECURSIVE ScanBack(_, _, _, _, _)
ScanBack(events, sequence, j, index, num_to_remove) ==
    IF j < 1
      THEN [index |-> index, num_to_remove |-> num_to_remove, error |-> FALSE]
    ELSE LET at == PyIndex(Len(sequence), index) IN
         IF at = 0
           THEN \* IndexError of STOP_SEQUENCES[i][stop_sequence_indices[i]]
                [index |-> index, num_to_remove |-> num_to_remove, error |-> TRUE]
         ELSE IF KeyIs(events[j], sequence[at]) /\ events[j].name = "press"
           THEN ScanBack(events, sequence, j - 1, index - 1, num_to_remove + 1)
         ELSE IF events[j].name = "release" /\ KeyIn(events[j], sequence)
           THEN ScanBack(events, sequence, j - 1, index, num_to_remove + 1)
         ELSE [index |-> index, num_to_remove |-> num_to_remove, error |-> FALSE]

\* Lines 409-438: the outer loop over the sequences, from sequence i on;
\* num_to_remove is not reset between sequences.
RECURSIVE FindSequence(_, _, _)
FindSequence(events, i, num_to_remove) ==
    IF i > Len(STOP_SEQUENCES)
      THEN [sequence_to_remove |-> -1, num_to_remove |-> num_to_remove, error |-> FALSE]
    ELSE LET scan == ScanBack(events, STOP_SEQUENCES[i], Len(events),
                              Len(STOP_SEQUENCES[i]) - 1, num_to_remove)
         IN  IF scan.error
               THEN [sequence_to_remove |-> -1, num_to_remove |-> scan.num_to_remove,
                     error |-> TRUE]
             ELSE IF scan.index = -1
               THEN [sequence_to_remove |-> i, num_to_remove |-> scan.num_to_remove,
                     error |-> FALSE]
             ELSE FindSequence(events, i + 1, scan.num_to_remove)

\* Lines 388-392: the last two events are a ctrl key and a "c" key.
EndsWithCtrlC(events) ==
    /\ Len(events) >= 2
    /\ events[Len(events)].canonical_key_char = "c"
    /\ events[Len(events) - 1].canonical_key_name = "ctrl"

\* The variant first: the ctrl c branch without its return of line 397, so
\* that the scan for a stop sequence goes on over what is left.
filter_stop_sequences_no_return(events) ==
    LET rest == IF EndsWithCtrlC(events)
                  THEN SubSeq(events, 1, Len(events) - 2) ELSE events
        found == FindSequence(rest, 1, 0)
    IN  IF found.error THEN [error |-> TRUE, events |-> rest]
        ELSE IF found.sequence_to_remove = -1 THEN [error |-> FALSE, events |-> rest]
        ELSE IF found.num_to_remove > Len(rest)
          THEN [error |-> TRUE, events |-> <<>>]
        ELSE [error |-> FALSE,
              events |-> SubSeq(rest, 1, Len(rest) - found.num_to_remove)]

\* filter_stop_sequences(action_events): the list as it is left, or an
\* IndexError.
filter_stop_sequences(events) ==
    IF EndsWithCtrlC(events)
      THEN [error |-> FALSE, events |-> SubSeq(events, 1, Len(events) - 2)]
    ELSE LET found == FindSequence(events, 1, 0) IN
         IF found.error THEN [error |-> TRUE, events |-> events]
         ELSE IF found.sequence_to_remove = -1 THEN [error |-> FALSE, events |-> events]
         ELSE IF found.num_to_remove > Len(events)
           THEN \* IndexError: pop from empty list
                [error |-> TRUE, events |-> <<>>]
         ELSE [error |-> FALSE,
               events |-> SubSeq(events, 1, Len(events) - found.num_to_remove)]

FilterInit ==
    /\ stored_events \in EventLists
    /\ action_events = <<>>
    /\ filter_state = "stored"

FilterIdle ==
    /\ stored_events = <<>>
    /\ action_events = <<>>
    /\ filter_state = "off"

\* get_action_events(recording): _get reads the rows by timestamp, then
\* filter_stop_sequences changes the list in place.
GetActionEvents ==
    /\ filter_state = "stored"
    /\ LET filtered == filter_stop_sequences(stored_events) IN
         /\ action_events' = filtered.events
         /\ filter_state' = IF filtered.error THEN "IndexError" ELSE "returned"
    /\ UNCHANGED <<stored_events, notFilterVars>>

(***************************************************************************)
(* Properties of the stop sequence filter                                  *)
(***************************************************************************)

KeyOf(ev) ==
    IF ev.canonical_key_char /= None THEN ev.canonical_key_char
    ELSE ev.canonical_key_name

\* events[s..] is sequence typed at the end of the recording: it starts with a
\* press, its presses spell the sequence, and its other events are releases of
\* keys of the sequence.
IsStopTail(events, s, sequence) ==
    LET tail == SubSeq(events, s, Len(events))
        presses == SelectSeq(tail, LAMBDA ev : ev.name = "press")
    IN  /\ s \in 1..Len(events)
        /\ events[s].name = "press"
        /\ \A k \in 1..Len(tail) :
               tail[k].name = "press" \/ (tail[k].name = "release" /\ KeyIn(tail[k], sequence))
        /\ [k \in 1..Len(presses) |-> KeyOf(presses[k])] = sequence

StopTails(events) ==
    {s \in 1..Len(events) : \E i \in 1..Len(STOP_SEQUENCES) :
        IsStopTail(events, s, STOP_SEQUENCES[i])}

\* C10: when the action events end with the presses of a complete sequence of
\* STOP_SEQUENCES, possibly interleaved with releases of its keys, the list
\* get_action_events returns is the input without exactly those trailing
\* events, whichever sequence it is and whatever precedes it.
C10_StopSequenceRemoved ==
    (filter_state /= "stored" /\ StopTails(stored_events) /= {}) =>
        /\ filter_state = "returned"
        /\ \E s \in StopTails(stored_events) :
               action_events = SubSeq(stored_events, 1, s - 1)

\* The recording ends with a ctrl key event followed by a "c" key event.
CtrlCLast(events) ==
    /\ Len(events) >= 2
    /\ KeyOf(events[Len(events) - 1]) = "ctrl"
    /\ KeyOf(events[Len(events)]) = "c"

\* C11: when the last two action events are a ctrl key event followed by a "c"
\* key event, get_action_events returns the list without exactly those two
\* events: everything before them stays, a complete stop sequence of
\* STOP_SEQUENCES in front of them included, and no error is raised.
C11_CtrlCRemovedAlone ==
    (filter_state /= "stored" /\ CtrlCLast(stored_events)) =>
        /\ filter_state = "returned"
        /\ Len(action_events) = Len(stored_events) - 2
        /\ \A k \in 1..Len(action_events) : action_events[k] = stored_events[k]

\* A ctrl c was removed from behind a complete stop sequence, which stayed.
C11_Witness ==
    /\ filter_state = "returned"
    /\ CtrlCLast(stored_events)
    /\ Len(stored_events) = MaxEvents
    /\ StopTails(action_events) /= {}
    /\ Len(action_events) = Len(stored_events) - 2

(***************************************************************************)
(* crud.py: the Recording table, get_all_recordings, get_latest_recording  *)
(***************************************************************************)

\* The model gives primary keys up to MaxRecordings and timestamps
\* 1..MaxTimestamp.
MaxRecordings == 3
MaxTimestamp == 2

Timestamps == 1..MaxTimestamp

\* A Recording row: the columns the queries read. by_copy is not a column: it
\* records that copy_recording made the row.
RecordingRow(id, timestamp, original_recording_id, by_copy) ==
    [id |-> id, timestamp |-> timestamp,
     original_recording_id |-> original_recording_id, by_copy |-> by_copy]

\* The primary key the database gives a new row.
NewId(rows) ==
    IF rows = <<>> THEN 1
    ELSE 1 + (CHOOSE m \in {rows[k].id : k \in 1..Len(rows)} :
                 \A k \in 1..Len(rows) : rows[k].id <= m)

\* copy_sa_instance(recording, original_recording_id=...): the columns of the
\* row but its primary key, with the given override.
copy_sa_instance(recording, original_recording_id) ==
    [recording EXCEPT !.original_recording_id = original_recording_id]

RecordingById(rows, recording_id) ==
    {k \in 1..Len(rows) : rows[k].id = recording_id}

\* The orders in which the database may give the rows back.
Orderings(rows) ==
    LET n == Len(rows)
        bijections == {f \in [1..n -> 1..n] : \A a, b \in 1..n : f[a] = f[b] => a = b}
    IN  {[k \in 1..n |-> rows[f[k]]] : f \in bijections}

\* .order_by(sa.desc(Recording.timestamp)): rows of equal timestamp come in
\* any order.
OrderByDescTimestamp(rows) ==
    {p \in Orderings(rows) :
        \A k \in 1..(Len(p) - 1) : p[k].timestamp >= p[k + 1].timestamp}

OrderByAscTimestamp(rows) ==
    {p \in Orderings(rows) :
        \A k \in 1..(Len(p) - 1) : p[k].timestamp <= p[k + 1].timestamp}

\* The variant first: the query without its filter of line 251.
get_all_recordings_unfiltered(rows) == OrderByDescTimestamp(rows)

\* get_all_recordings(): the lists .all() may give.
get_all_recordings(rows) ==
    OrderByDescTimestamp(
        SelectSeq(rows, LAMBDA r : r.original_recording_id = NoneValue))

\* The variant first: the query ordered by sa.asc instead of sa.desc.
get_latest_recording_asc(rows) ==
    {SubSeq(p, 1, Min(1, Len(p))) : p \in OrderByAscTimestamp(rows)}

\* get_latest_recording(): .limit(1).first() gives the first row of the
\* ordered rows, or None (here the empty list) when there is none.
get_latest_recording(rows) ==
    {SubSeq(p, 1, Min(1, Len(p))) : p \in OrderByDescTimestamp(rows)}

RecInit ==
    /\ recordings = <<>>
    /\ rec_result = [op |-> "none", rows |-> <<>>]

RecIdle == RecInit

\* insert_recording(recording_data): the recorder gives the timestamp; the
\* other columns keep their defaults.
InsertRecording(timestamp) ==
    /\ NewId(recordings) <= MaxRecordings
    /\ LET db_obj == RecordingRow(NewId(recordings), timestamp, NoneValue, FALSE) IN
         /\ recordings' = Append(recordings, db_obj)
         /\ rec_result' = [op |-> "insert_recording", rows |-> <<db_obj>>]
    /\ UNCHANGED notRecVars

\* delete_recording(recording_timestamp)
DeleteRecording(recording_timestamp) ==
    /\ recordings /= <<>>
    /\ recordings' = SelectSeq(recordings,
                               LAMBDA r : r.timestamp /= recording_timestamp)
    /\ rec_result' = [op |-> "delete_recording", rows |-> <<>>]
    /\ UNCHANGED notRecVars

\* copy_recording(recording_id): the new recording is committed before the
\* events are copied; an exception at any point (no such recording, a failure
\* while the events are copied) is logged and None is returned.
CopyRecording(recording_id, events_copied) ==
    /\ NewId(recordings) <= MaxRecordings
    /\ IF RecordingById(recordings, recording_id) = {}
         THEN /\ rec_result' = [op |-> "copy_recording", rows |-> <<>>]
              /\ UNCHANGED recordings
         ELSE LET recording == recordings[CHOOSE k \in RecordingById(recordings, recording_id) : TRUE]
                  new_recording ==
                      [copy_sa_instance(recording, IntValue(recording.id))
                          EXCEPT !.id = NewId(recordings), !.by_copy = TRUE]
              IN  /\ recordings' = Append(recordings, new_recording)
                  /\ rec_result' = [op |-> "copy_recording",
                                    rows |-> IF events_copied THEN <<new_recording>>
                                             ELSE <<>>]
    /\ UNCHANGED notRecVars

GetAllRecordings ==
    /\ \E rows \in get_all_recordings(recordings) :
           rec_result' = [op |-> "get_all_recordings", rows |-> rows]
    /\ UNCHANGED <<recordings, notRecVars>>

GetLatestRecording ==
    /\ \E rows \in get_latest_recording(recordings) :
           rec_result' = [op |-> "get_latest_recording", rows |-> rows]
    /\ UNCHANGED <<recordings, notRecVars>>

(***************************************************************************)
(* Properties of the Recording queries                                     *)
(***************************************************************************)

Stored == {recordings[k] : k \in 1..Len(recordings)}

Originals == {r \in Stored : r.original_recording_id = NoneValue}

Occurrences(rows, r) == Cardinality({k \in 1..Len(rows) : rows[k] = r})

\* C12: the list get_all_recordings returns holds every stored recording
\* whose original_recording_id is unset exactly once and no other row, its
\* timestamps never increase along the list, and no row that copy_recording
\* made is in it.
C12_AllRecordingsAreOriginals ==
    rec_result.op = "get_all_recordings" =>
        LET rows == rec_result.rows IN
        /\ \A r \in Originals : Occurrences(rows, r) = 1
        /\ \A k \in 1..Len(rows) : rows[k] \in Originals /\ ~rows[k].by_copy
        /\ \A k \in 1..(Len(rows) - 1) : rows[k].timestamp >= rows[k + 1].timestamp

\* The call returned two originals, the later one stored after the earlier
\* one, while a copy is stored too.
C12_Witness ==
    /\ rec_result.op = "get_all_recordings"
    /\ Len(rec_result.rows) >= 2
    /\ rec_result.rows[1].timestamp > rec_result.rows[2].timestamp
    /\ rec_result.rows[1].id > rec_result.rows[2].id
    /\ \E r \in Stored : r.by_copy

\* C13: get_latest_recording returns no recording when none is stored, and
\* otherwise one stored recording whose timestamp no stored recording
\* exceeds.
C13_LatestHasGreatestTimestamp ==
    rec_result.op = "get_latest_recording" =>
        IF Stored = {} THEN rec_result.rows = <<>>
        ELSE /\ Len(rec_result.rows) = 1
             /\ rec_result.rows[1] \in Stored
             /\ \A r \in Stored : r.timestamp <= rec_result.rows[1].timestamp

\* The call returned a recording that is neither the first nor the last row
\* stored, and an earlier recording is stored as well.
C13_Witness ==
    /\ rec_result.op = "get_latest_recording"
    /\ Len(recordings) >= 3
    /\ Len(rec_result.rows) = 1
    /\ rec_result.rows[1] = recordings[2]
    /\ recordings[1].timestamp < recordings[2].timestamp
    /\ recordings[3].timestamp < recordings[2].timestamp

(***************************************************************************)
(* tests/openadapt/test_stateful.py                                        *)
(***************************************************************************)

REF_X == 25
REF_Y == 55
NEW_X == 138
NEW_Y == 89
WIN_LEFT == 0
WIN_TOP == 30
WIN_WIDTH == 1123
WIN_HEIGHT == 749
WINDOW_ID == 107079
NEW_WIN_LEFT == 113
NEW_WIN_TOP == 64
SINGLE_ACTION_LOOP_GUARD == 12
MULTI_ACTION_REF_X == 400
MULTI_ACTION_REF_Y == 500
MULTI_ACTION_NEW_X == 467
MULTI_ACTION_NEW_Y == 576
MULTI_ACTION_WIN_LEFT == 20
MULTI_ACTION_WIN_TOP == 25
MULTI_ACTION_WIN_WIDTH == 1300
MULTI_ACTION_WIN_HEIGHT == 800
MULTI_ACTION_WINDOW_ID == 10442
NEW_MULTI_ACTION_WIN_LEFT == 87
NEW_MULTI_ACTION_WIN_TOP == 101
MULTI_ACTION_LOOP_GUARD == 20

\* "password", letter by letter
multi_action_test_word == <<"p", "a", "s", "s", "w", "o", "r", "d">>

Tests == {"test_single_mouse_diff", "test_multi_click_diff",
          "test_simple_multi_action_sequence"}

\* element_state = element_state or {}; meta = meta or {}
EmptyDict == <<>>

create_win_dict(title, left, top, w, h, window_id) ==
    [state |-> [title |-> title, left |-> left, top |-> top, width |-> w,
                height |-> h, window_id |-> window_id, meta |-> EmptyDict],
     title |-> title, left |-> left, top |-> top, width |-> w, height |-> h]

\* create_action_dict: a list of one action dict. The tests give no other
\* name than these four.
create_action_dict(name, mouse_x, mouse_y, mouse_button_name, mouse_pressed, key_name) ==
    CASE name = "click" ->
           << [name |-> name, mouse_x |-> mouse_x, mouse_y |-> mouse_y,
               mouse_button_name |-> mouse_button_name,
               mouse_pressed |-> mouse_pressed, element_state |-> EmptyDict] >>
      [] name \in {"press", "release"} ->
           << [name |-> name, key_name |-> key_name] >>
      [] name = "move" ->
           << [name |-> name, mouse_x |-> mouse_x, mouse_y |-> mouse_y,
               element_state |-> EmptyDict] >>

Click(mouse_x, mouse_y) ==
    create_action_dict("click", mouse_x, mouse_y, "left", TRUE, None)

Move(mouse_x, mouse_y) ==
    create_action_dict("move", mouse_x, mouse_y, None, None, None)

\* The reference window of each test.
ReferenceWindow(t) ==
    IF t = "test_simple_multi_action_sequence"
      THEN create_win_dict("Google Chrome", MULTI_ACTION_WIN_LEFT,
                           MULTI_ACTION_WIN_TOP, MULTI_ACTION_WIN_WIDTH,
                           MULTI_ACTION_WIN_HEIGHT, MULTI_ACTION_WINDOW_ID)
      ELSE create_win_dict("Calculator", WIN_LEFT, WIN_TOP, WIN_WIDTH,
                           WIN_HEIGHT, WINDOW_ID)

\* The active window of each test.
ActiveWindow(t) ==
    IF t = "test_simple_multi_action_sequence"
      THEN create_win_dict("Google Chrome", NEW_MULTI_ACTION_WIN_LEFT,
                           NEW_MULTI_ACTION_WIN_TOP, MULTI_ACTION_WIN_WIDTH,
                           MULTI_ACTION_WIN_HEIGHT, MULTI_ACTION_WINDOW_ID)
      ELSE create_win_dict("Calculator", NEW_WIN_LEFT, NEW_WIN_TOP, WIN_WIDTH,
                           WIN_HEIGHT, WINDOW_ID)

\* How often the loop over i runs (test_single_mouse_diff has no loop: its
\* single action is taken as one pass).
LoopGuard(t) ==
    CASE t = "test_single_mouse_diff" -> 1
      [] t = "test_multi_click_diff" -> SINGLE_ACTION_LOOP_GUARD
      [] t = "test_simple_multi_action_sequence" -> MULTI_ACTION_LOOP_GUARD

\* What pass i of the loop adds to the reference actions.
ReferenceActions(t, i) ==
    CASE t = "test_single_mouse_diff" -> Click(REF_X, REF_Y)
      [] t = "test_multi_click_diff" ->
           Click(REF_X + i, REF_Y) \o Click(REF_X, REF_Y + i)
             \o Click(REF_X + i, REF_Y + i)
      [] t = "test_simple_multi_action_sequence" ->
           Move(MULTI_ACTION_REF_X - i, MULTI_ACTION_REF_Y - i)

\* The variant first: the expected actions built from the reference
\* coordinates of the multi action test.
ExpectedActionsFromRef(t, i) ==
    CASE t = "test_single_mouse_diff" -> Click(NEW_X, NEW_Y)
      [] t = "test_multi_click_diff" ->
           Click(NEW_X + i, NEW_Y) \o Click(NEW_X, NEW_Y + i)
             \o Click(NEW_X + i, NEW_Y + i)
      [] t = "test_simple_multi_action_sequence" ->
           Move(MULTI_ACTION_REF_X - i, MULTI_ACTION_NEW_Y - i)

\* What pass i of the loop adds to the expected actions.
ExpectedActions(t, i) ==
    CASE t = "test_single_mouse_diff" -> Click(NEW_X, NEW_Y)
      [] t = "test_multi_click_diff" ->
           Click(NEW_X + i, NEW_Y) \o Click(NEW_X, NEW_Y + i)
             \o Click(NEW_X + i, NEW_Y + i)
      [] t = "test_simple_multi_action_sequence" ->
           Move(MULTI_ACTION_NEW_X - i, MULTI_ACTION_NEW_Y - i)

TestInit ==
    /\ test \in Tests
    /\ tpc = "win_dict"
    /\ loop_i = 0
    /\ win_dict = EmptyDict
    /\ active_win_dict = EmptyDict
    /\ ref_act_dicts = <<>>
    /\ expected_act_dict = <<>>
    /\ test_dict = <<>>

TestIdle ==
    /\ test = "none"
    /\ tpc = "off"
    /\ loop_i = 0
    /\ win_dict = EmptyDict
    /\ active_win_dict = EmptyDict
    /\ ref_act_dicts = <<>>
    /\ expected_act_dict = <<>>
    /\ test_dict = <<>>

IsMultiAction == test = "test_simple_multi_action_sequence"

\* win_dict = create_win_dict(...)
TestWinDict ==
    /\ tpc = "win_dict"
    /\ win_dict' = ReferenceWindow(test)
    /\ tpc' = "reference"
    /\ UNCHANGED <<test, loop_i, active_win_dict, ref_act_dicts,
                   expected_act_dict, test_dict, notTestVars>>

\* The reference actions: act_dict, the loop that fills total_actions, the
\* loop that fills ref_act_dicts with moves.
TestReference ==
    /\ tpc = "reference"
    /\ IF loop_i < LoopGuard(test)
         THEN /\ ref_act_dicts' = ref_act_dicts \o ReferenceActions(test, loop_i)
              /\ loop_i' = loop_i + 1
              /\ tpc' = tpc
         ELSE /\ tpc' = IF IsMultiAction THEN "expected" ELSE "active_win_dict"
              /\ loop_i' = 0
              /\ UNCHANGED ref_act_dicts
    /\ UNCHANGED <<test, win_dict, active_win_dict, expected_act_dict,
                   test_dict, notTestVars>>

\* active_win_dict = create_win_dict(...)
TestActiveWinDict ==
    /\ tpc = "active_win_dict"
    /\ active_win_dict' = ActiveWindow(test)
    /\ tpc' = IF IsMultiAction THEN "call" ELSE "expected"
    /\ UNCHANGED <<test, loop_i, win_dict, ref_act_dicts, expected_act_dict,
                   test_dict, notTestVars>>

\* The expected actions: expected_dict, the loop that fills
\* expected_actions, the loop that fills expected_act_dict with moves.
TestExpected ==
    /\ tpc = "expected"
    /\ IF loop_i < LoopGuard(test)
         THEN /\ expected_act_dict' = expected_act_dict \o ExpectedActions(test, loop_i)
              /\ loop_i' = loop_i + 1
              /\ tpc' = tpc
         ELSE /\ tpc' = IF IsMultiAction THEN "letters" ELSE "call"
              /\ loop_i' = 0
              /\ UNCHANGED expected_act_dict
    /\ UNCHANGED <<test, win_dict, active_win_dict, ref_act_dicts, test_dict,
                   notTestVars>>

\* for letter in multi_action_test_word (lines 320-324)
TestLetters ==
    /\ tpc = "letters"
    /\ IF loop_i < Len(multi_action_test_word)
         THEN LET letter == multi_action_test_word[loop_i + 1]
                  press_dict == create_action_dict("press", None, None, None, None, letter)
                  release_dict == create_action_dict("release", None, None, None, None, letter)
              IN  /\ ref_act_dicts' = ref_act_dicts \o press_dict \o release_dict
                  /\ expected_act_dict' = expected_act_dict \o press_dict \o release_dict
                  /\ loop_i' = loop_i + 1
                  /\ tpc' = tpc
         ELSE /\ tpc' = "active_win_dict"
              /\ loop_i' = 0
              /\ UNCHANGED <<ref_act_dicts, expected_act_dict>>
    /\ UNCHANGED <<test, win_dict, active_win_dict, test_dict, notTestVars>>

\* Replies of the language model, as the list eval() makes of the text from
\* the first "[" to the first "]": the reference actions moved by some
\* offset, whole or without the last action.
Moved(actions, dx, dy) ==
    [k \in 1..Len(actions) |->
        IF "mouse_x" \in DOMAIN actions[k]
          THEN [actions[k] EXCEPT !.mouse_x = @ + dx, !.mouse_y = @ + dy]
          ELSE actions[k]]

gpt_completion(ref_win_dict, ref_acts, active_win) ==
    LET whole == {Moved(ref_acts, dx, dy) :
                     dx \in {0, active_win.left, active_win.left - ref_win_dict.left},
                     dy \in {0, active_win.top, active_win.top - ref_win_dict.top}}
    IN  whole \cup {Pop(reply) : reply \in whole}

\* _test_generalizable_single_action: the assert of line 105.
TestCall ==
    /\ tpc = "call"
    /\ \E reply \in gpt_completion(win_dict, ref_act_dicts, active_win_dict) :
          /\ test_dict' = reply
          /\ tpc' = IF reply = expected_act_dict THEN "passed" ELSE "AssertionError"
    /\ UNCHANGED <<test, loop_i, win_dict, active_win_dict, ref_act_dicts,
                   expected_act_dict, notTestVars>>

(***************************************************************************)
(* Properties of the replay tests                                          *)
(***************************************************************************)

\* action is the reference action moved by the displacement of the window.
TranslatedBy(reference, action, dx, dy) ==
    /\ DOMAIN action = DOMAIN reference
    /\ action.name = reference.name
    /\ IF reference.name \in {"press", "release"}
         THEN action.key_name = reference.key_name
         ELSE /\ action.mouse_x = reference.mouse_x + dx
              /\ action.mouse_y = reference.mouse_y + dy
              /\ \A f \in DOMAIN reference \ {"mouse_x", "mouse_y"} :
                     action[f] = reference[f]

IsTranslation(actions) ==
    LET dx == active_win_dict.left - win_dict.left
        dy == active_win_dict.top - win_dict.top
    IN  /\ Len(actions) = Len(ref_act_dicts)
        /\ \A k \in 1..Len(actions) :
               TranslatedBy(ref_act_dicts[k], actions[k], dx, dy)

\* C14: the action list a test requires is its reference list with every
\* mouse_x moved by (active window left - reference window left) and every
\* mouse_y by (active window top - reference window top), key presses and
\* releases as they are, of the same length and in the same order; a reply
\* passes the test only if it is that list.
C14_RequiredOutputIsTranslation ==
    /\ tpc \in {"call", "passed", "AssertionError"} => IsTranslation(expected_act_dict)
    /\ tpc = "passed" => IsTranslation(test_dict)

\* The multi action test passed on a list of moves and key presses, in front
\* of a window that is displaced in both directions.
C14_Witness ==
    /\ tpc = "passed"
    /\ IsMultiAction
    /\ active_win_dict.left /= win_dict.left
    /\ active_win_dict.top /= win_dict.top
    /\ \E k \in 1..Len(test_dict) : test_dict[k].name = "move"
    /\ \E k \in 1..Len(test_dict) : test_dict[k].name = "press"

(***************************************************************************)
(* The specifications, one per component                                   *)
(***************************************************************************)

InitLock == LockInit /\ MainIdle /\ InsertIdle /\ FilterIdle /\ RecIdle /\ TestIdle

NextLock ==
    \/ \E c \in Coroutines : AcquireCall(c)
    \/ \E c \in Coroutines : AcquireResume(c)
    \/ \E c \in Coroutines : ReleaseLock(c)

SpecLock == InitLock /\ [][NextLock]_vars

InitMain == MainInit /\ LockInit /\ InsertIdle /\ FilterIdle /\ RecIdle /\ TestIdle

NextMain ==
    \/ LoopTop
    \/ MainGenerate
    \/ MainDraw
    \/ PromptAnswer
    \/ PromptException
    \/ EndRound
    \/ Final

SpecMain == InitMain /\ [][NextMain]_vars

InitCursors == CursorsInit /\ LockInit /\ InsertIdle /\ FilterIdle /\ RecIdle /\ TestIdle

NextCursors == CursorsGenerate

SpecCursors == InitCursors /\ [][NextCursors]_vars

InitOverlap == OverlapInit /\ LockInit /\ InsertIdle /\ FilterIdle /\ RecIdle /\ TestIdle

NextOverlap == OverlapDraw

SpecOverlap == InitOverlap /\ [][NextOverlap]_vars

InitInsert == InsertInit /\ LockInit /\ MainIdle /\ FilterIdle /\ RecIdle /\ TestIdle

NextInsert ==
    \/ InsertBuffered
    \/ InsertUnbuffered

SpecInsert == InitInsert /\ [][NextInsert]_vars

InitFilter == FilterInit /\ LockInit /\ MainIdle /\ InsertIdle /\ RecIdle /\ TestIdle

NextFilter == GetActionEvents

SpecFilter == InitFilter /\ [][NextFilter]_vars

InitRec == RecInit /\ LockInit /\ MainIdle /\ InsertIdle /\ FilterIdle /\ TestIdle

NextRec ==
    \/ \E timestamp \in Timestamps : InsertRecording(timestamp)
    \/ \E timestamp \in Timestamps : DeleteRecording(timestamp)
    \/ \E recording_id \in 1..MaxRecordings, events_copied \in BOOLEAN :
           CopyRecording(recording_id, events_copied)
    \/ GetAllRecordings
    \/ GetLatestRecording

SpecRec == InitRec /\ [][NextRec]_vars

InitTests == TestInit /\ LockInit /\ MainIdle /\ InsertIdle /\ FilterIdle /\ RecIdle

NextTests ==
    \/ TestWinDict
    \/ TestReference
    \/ TestActiveWinDict
    \/ TestExpected
    \/ TestLetters
    \/ TestCall

SpecTests == InitTests /\ [][NextTests]_vars

====
